---- MODULE Spec2Model ----
(***************************************************************************)
(* FrameConverter: the graphical shell (src/src/App.tsx) and the           *)
(* conversion controller it talks to over IPC.                             *)
(*                                                                         *)
(* Strings are sequences of one-character strings, so that trim, Number,   *)
(* toString, split and the regular expressions are computed, not assumed.  *)
(***************************************************************************)
EXTENDS Integers, Sequences, FiniteSets, Bags, TLC

VARIABLES
  (* React state of App (App.tsx:57-74) *)
  inputPath, inputPaths, isFolder, outputDir, outputName, fps, loopCount,
  formats, useLocalCompression, compressionQuality, isEditingCompression,
  tempCompressionValue, scanResult, isConverting, isPaused, progress, results,
  (* IPC: invoke calls in flight and the progress event channel *)
  calls, events,
  (* conversion controller (the single process-wide job) *)
  jobState, cancelFlag, jobFormats, jobIndex, jobResults,
  (* the output file of each format on disk, and whether the encoder of    *)
  (* the format in flight has begun to write its file                      *)
  outFiles, writing,
  (* picker dialogs: the two refs and the three isPicking states (App.tsx:78-92) *)
  dialogInFlight, dialogReqId, isPicking,
  (* a call of the pure function getBaseName *)
  argPath, retName, pcBase,
  (* the convert-progress subscription of the mount effect (App.tsx:281-296): *)
  (* whether the component is mounted, the position of the awaited listen, *)
  (* the effect's locals cancelled and unsubs, and how many times the      *)
  (* unlisten function u1 has been called                                  *)
  mounted, pcListen, cancelled, unsubs, unlistenCalls

formVars == <<inputPath, inputPaths, isFolder, outputDir, outputName, fps,
              loopCount, formats, useLocalCompression, compressionQuality,
              isEditingCompression, tempCompressionValue, scanResult>>
runVars  == <<isConverting, isPaused, progress, results>>
dlgVars  == <<dialogInFlight, dialogReqId, isPicking>>
ipcVars  == <<calls, events>>
diskVars == <<outFiles, writing>>
ctrlVars == <<jobState, cancelFlag, jobFormats, jobIndex, jobResults, diskVars>>
baseVars == <<argPath, retName, pcBase>>
subVars  == <<mounted, pcListen, cancelled, unsubs, unlistenCalls>>
vars     == <<formVars, runVars, dlgVars, ipcVars, ctrlVars, baseVars, subVars>>

(***************************************************************************)
(* Bounds                                                                  *)
(***************************************************************************)
MaxPathLen == 5
MaxCalls   == 3
MaxEvents  == 1
NumFormats == 2
MaxReqId   == 3

(***************************************************************************)
(* Strings                                                                 *)
(***************************************************************************)
Digits == <<"0", "1", "2", "3", "4", "5", "6", "7", "8", "9">>
DigitChars == {Digits[i] : i \in 1..10}
DigitVal(c) == (CHOOSE i \in 1..10 : Digits[i] = c) - 1

SetMin(S) == CHOOSE x \in S : \A y \in S : x <= y
SetMax(S) == CHOOSE x \in S : \A y \in S : x >= y

(* String.prototype.trim, for the one whitespace character of the alphabet *)
trim(s) ==
  LET keep == {i \in 1..Len(s) : s[i] # " "}
  IN  IF keep = {} THEN <<>> ELSE SubSeq(s, SetMin(keep), SetMax(keep))

(* s.replace(/[^...]/g, '') : keep the characters of s that are in allowed *)
FilterChars(s, allowed) == SelectSeq(s, LAMBDA c : c \in allowed)

RECURSIVE DigitsToNat(_)
DigitsToNat(s) ==
  IF s = <<>> THEN 0
  ELSE DigitsToNat(SubSeq(s, 1, Len(s) - 1)) * 10 + DigitVal(s[Len(s)])

(* Number.prototype.toString for a non-negative integer *)
RECURSIVE NatToString(_)
NatToString(n) ==
  IF n < 10 THEN <<Digits[n + 1]>>
  ELSE NatToString(n \div 10) \o <<Digits[(n % 10) + 1]>>

(* Number(s) for strings of digits, '.' and spaces (all that the program's   *)
(* input filters let through): the value num / 10^scale, or NaN.           *)
NaN == [nan |-> TRUE, num |-> 0, scale |-> 0]
Num(n, k) == [nan |-> FALSE, num |-> n, scale |-> k]
Number(s) ==
  LET t    == trim(s)
      dots == {i \in 1..Len(t) : t[i] = "."}
  IN  IF t = <<>> THEN Num(0, 0)
      ELSE IF \E i \in 1..Len(t) : t[i] \notin DigitChars \cup {"."} THEN NaN
      ELSE IF Cardinality(dots) > 1 THEN NaN
      ELSE IF dots = {} THEN Num(DigitsToNat(t), 0)
      ELSE IF Len(t) = 1 THEN NaN
      ELSE LET d == CHOOSE i \in dots : TRUE
           IN  Num(DigitsToNat(SubSeq(t, 1, d - 1) \o SubSeq(t, d + 1, Len(t))),
                   Len(t) - d)

(***************************************************************************)
(* getBaseName (App.tsx:47-54)                                             *)
(***************************************************************************)
PathSeps == {"/", "\\"}

(* path.split(/[/\\]/) : the last element of the resulting array *)
LastPart(path) ==
  LET seps == {i \in 1..Len(path) : path[i] \in PathSeps}
  IN  IF seps = {} THEN path ELSE SubSeq(path, SetMax(seps) + 1, Len(path))

(* s.replace(/\.[^/.]+$/, '') : cut at the leftmost match *)
RemoveExtension(s) ==
  LET m == {i \in 1..Len(s) : /\ s[i] = "."
                              /\ i < Len(s)
                              /\ \A j \in (i + 1)..Len(s) : s[j] \notin {"/", "."}}
  IN  IF m = {} THEN s ELSE SubSeq(s, 1, SetMin(m) - 1)

(* s.replace(/[_-]\d+$/, '') : cut at the leftmost match *)
RemoveSequenceNumber(s) ==
  LET m == {i \in 1..Len(s) : /\ s[i] \in {"_", "-"}
                              /\ i < Len(s)
                              /\ \A j \in (i + 1)..Len(s) : s[j] \in DigitChars}
  IN  IF m = {} THEN s ELSE SubSeq(s, 1, SetMin(m) - 1)

ExtensionOnlyGetBaseName(path) ==
  LET last     == LastPart(path)
      fileName == IF last # <<>> THEN last ELSE path
  IN  RemoveExtension(fileName)

getBaseName(path) ==
  LET last     == LastPart(path)
      fileName == IF last # <<>> THEN last ELSE path
  IN  RemoveSequenceNumber(RemoveExtension(fileName))

(***************************************************************************)
(* Values the user types and picks                                         *)
(***************************************************************************)
Dir   == <<"/", "s">>
FileA == <<"/", "s", "/", "f", "_", "1", ".", "p">>
FileB == <<"/", "s", "/", "f", "_", "2", ".", "p">>
FileC == <<"/", "g", ".", "p">>
OutDir == <<"/", "o">>

(* ['apng', 'webp', 'gif'].map(...) : the format checkboxes (App.tsx:576) *)
FormatNames == <<"apng", "webp", "gif">>
Checkboxes  == {FormatNames[i] : i \in 1..NumFormats}

(* Optional values (T | null) are sequences of length at most one *)
Null    == <<>>
Some(x) == <<x>>

(***************************************************************************)
(* Shell: state after construction (App.tsx:57-92)                         *)
(***************************************************************************)
DialogKinds == {"input", "inputFolder", "outputDir"}

InitShell ==
  /\ inputPath = <<>>
  /\ inputPaths = <<>>
  /\ isFolder = FALSE
  /\ outputDir = <<>>
  /\ outputName = <<>>
  /\ fps = <<"3", "0">>
  /\ loopCount = <<"0">>
  /\ formats = <<"apng">>
  /\ useLocalCompression = FALSE
  /\ compressionQuality = <<"0">>
  /\ isEditingCompression = FALSE
  /\ tempCompressionValue = <<"0">>
  /\ scanResult = Null
  /\ isConverting = FALSE
  /\ isPaused = FALSE
  /\ progress = Null
  /\ results = <<>>
  /\ dialogInFlight = [k \in DialogKinds |-> FALSE]
  /\ dialogReqId = [k \in DialogKinds |-> 0]
  /\ isPicking = [k \in DialogKinds |-> FALSE]

InitIpc == calls = EmptyBag /\ events = <<>>

InitCtrl ==
  /\ jobState = "Idle"
  /\ cancelFlag = FALSE
  /\ jobFormats = <<>>
  /\ jobIndex = 0
  /\ jobResults = <<>>
  /\ outFiles = [f \in Checkboxes |-> "none"]
  /\ writing = FALSE

InitBase == argPath = <<>> /\ retName = <<>> /\ pcBase = "idle"

(* the component is mounted and its effect has run up to the await of      *)
(* listen (App.tsx:282-285)                                                *)
InitSub ==
  /\ mounted = TRUE
  /\ pcListen = "pending"
  /\ cancelled = FALSE
  /\ unsubs = <<>>
  /\ unlistenCalls = 0

(***************************************************************************)
(* canConvert (App.tsx:94-108)                                             *)
(***************************************************************************)
IsFinite(n) == ~n.nan

NoFpsCheckCanConvert ==
  /\ ~isConverting
  /\ IF isFolder THEN trim(inputPath) # <<>>
                 ELSE (inputPaths # <<>> \/ trim(inputPath) # <<>>)
  /\ trim(outputDir) # <<>>
  /\ formats # <<>>
  /\ LET loopNum == Number(loopCount) IN IsFinite(loopNum) /\ loopNum.num >= 0

canConvert ==
  /\ ~isConverting
  /\ IF isFolder THEN trim(inputPath) # <<>>
                 ELSE (inputPaths # <<>> \/ trim(inputPath) # <<>>)
  /\ trim(outputDir) # <<>>
  /\ formats # <<>>
  /\ LET fpsNum == Number(fps) IN IsFinite(fpsNum) /\ fpsNum.num > 0
  /\ LET loopNum == Number(loopCount) IN IsFinite(loopNum) /\ loopNum.num >= 0

(***************************************************************************)
(* IPC: invoke calls in flight                                             *)
(***************************************************************************)
Call(kind, arg) ==
  [kind |-> kind, status |-> "sent", arg |-> arg, ret |-> <<>>, error |-> ""]

InFlight == BagToSet(calls)
CallsOf(kind) == {c \in InFlight : c.kind = kind}
Invoke(c) == calls (+) SetToBag({c})
Replace(c, d) == (calls (-) SetToBag({c})) (+) SetToBag({d})
Remove(c) == calls (-) SetToBag({c})
Room == BagCardinality(calls) < MaxCalls

(* the request object of startConvert (App.tsx:260-271) *)
ConvertRequest ==
  [inputMode |-> IF isFolder THEN "folder" ELSE "file",
   inputPath |-> inputPath,
   inputPaths |-> IF ~isFolder THEN Some(inputPaths) ELSE Null,
   outputDir |-> trim(outputDir),
   outputName |-> IF trim(outputName) # <<>> THEN Some(trim(outputName)) ELSE Null,
   fps |-> Number(fps),
   loopCount |-> Number(loopCount),
   formats |-> formats,
   useLocalCompression |-> useLocalCompression,
   compressionQuality |-> Number(compressionQuality)]

(***************************************************************************)
(* The auto-generated output name (effect, App.tsx:298-307). The effect    *)
(* runs after every render in which scanResult, isFolder, inputPath or     *)
(* inputPaths was set; AutoName is the outputName it leaves.               *)
(***************************************************************************)
SwappedSizeAutoName(sr, folder, ip, ips, name) ==
  IF sr # Null /\ sr[1].baseSize # Null
  THEN LET baseName == IF folder THEN getBaseName(ip)
                       ELSE getBaseName(IF ips # <<>> /\ ips[1] # <<>>
                                        THEN ips[1] ELSE ip)
       IN  baseName \o <<"_">> \o NatToString(sr[1].baseSize[1][2])
                    \o <<"x">> \o NatToString(sr[1].baseSize[1][1])
  ELSE name

AutoName(sr, folder, ip, ips, name) ==
  IF sr # Null /\ sr[1].baseSize # Null
  THEN LET baseName == IF folder THEN getBaseName(ip)
                       ELSE getBaseName(IF ips # <<>> /\ ips[1] # <<>>
                                        THEN ips[1] ELSE ip)
       IN  baseName \o <<"_">> \o NatToString(sr[1].baseSize[1][1])
                    \o <<"x">> \o NatToString(sr[1].baseSize[1][2])
  ELSE name

(***************************************************************************)
(* Form handlers                                                           *)
(***************************************************************************)
(* Input onChange (App.tsx:463-468) *)
InputPathChange(v) ==
  /\ inputPath' = v
  /\ inputPaths' = IF ~isFolder THEN (IF trim(v) # <<>> THEN <<v>> ELSE <<>>)
                   ELSE inputPaths
  /\ scanResult' = Null
  /\ outputName' = AutoName(scanResult', isFolder, inputPath', inputPaths', outputName)
  /\ UNCHANGED <<isFolder, outputDir, fps, loopCount, formats, useLocalCompression,
                 compressionQuality, isEditingCompression, tempCompressionValue>>
  /\ UNCHANGED <<runVars, dlgVars, ipcVars, ctrlVars, baseVars, subVars>>

(* Output Directory onChange (App.tsx:510) *)
OutputDirChange(v) ==
  /\ outputDir' = v
  /\ UNCHANGED <<inputPath, inputPaths, isFolder, outputName, fps, loopCount, formats,
                 useLocalCompression, compressionQuality, isEditingCompression,
                 tempCompressionValue, scanResult>>
  /\ UNCHANGED <<runVars, dlgVars, ipcVars, ctrlVars, baseVars, subVars>>

(* Output Name onChange (App.tsx:523) *)
OutputNameChange(v) ==
  /\ outputName' = v
  /\ UNCHANGED <<inputPath, inputPaths, isFolder, outputDir, fps, loopCount, formats,
                 useLocalCompression, compressionQuality, isEditingCompression,
                 tempCompressionValue, scanResult>>
  /\ UNCHANGED <<runVars, dlgVars, ipcVars, ctrlVars, baseVars, subVars>>

(* Frame Rate onChange (App.tsx:550-553) *)
FpsChange(raw) ==
  /\ fps' = FilterChars(raw, DigitChars \cup {"."})
  /\ UNCHANGED <<inputPath, inputPaths, isFolder, outputDir, outputName, loopCount,
                 formats, useLocalCompression, compressionQuality,
                 isEditingCompression, tempCompressionValue, scanResult>>
  /\ UNCHANGED <<runVars, dlgVars, ipcVars, ctrlVars, baseVars, subVars>>

(* Loop Count onChange (App.tsx:565-568) *)
LoopCountChange(raw) ==
  /\ loopCount' = FilterChars(raw, DigitChars)
  /\ UNCHANGED <<inputPath, inputPaths, isFolder, outputDir, outputName, fps, formats,
                 useLocalCompression, compressionQuality, isEditingCompression,
                 tempCompressionValue, scanResult>>
  /\ UNCHANGED <<runVars, dlgVars, ipcVars, ctrlVars, baseVars, subVars>>

(* toggleFormat (App.tsx:328-332) *)
toggleFormat(format) ==
  /\ formats' = IF \E i \in 1..Len(formats) : formats[i] = format
                THEN SelectSeq(formats, LAMBDA f : f # format)
                ELSE Append(formats, format)
  /\ UNCHANGED <<inputPath, inputPaths, isFolder, outputDir, outputName, fps, loopCount,
                 useLocalCompression, compressionQuality, isEditingCompression,
                 tempCompressionValue, scanResult>>
  /\ UNCHANGED <<runVars, dlgVars, ipcVars, ctrlVars, baseVars, subVars>>

compressionUnchanged ==
  /\ UNCHANGED <<inputPath, inputPaths, isFolder, outputDir, outputName, fps, loopCount,
                 formats, useLocalCompression, scanResult>>
  /\ UNCHANGED <<runVars, dlgVars, ipcVars, ctrlVars, baseVars, subVars>>

(* range input onChange (App.tsx:597-605); value is the slider position 0..100 *)
CompressionSlider(n) ==
  /\ compressionQuality' = NatToString(Number(NatToString(n)).num)
  /\ UNCHANGED <<isEditingCompression, tempCompressionValue>>
  /\ compressionUnchanged

(* click on the value label (App.tsx:649-652) *)
CompressionBeginEdit ==
  /\ ~isEditingCompression
  /\ tempCompressionValue' = compressionQuality
  /\ isEditingCompression' = TRUE
  /\ UNCHANGED compressionQuality
  /\ compressionUnchanged

NoUpperBoundInRange(num) == IsFinite(num) /\ num.num >= 0

InRange(num) == IsFinite(num) /\ num.num >= 0 /\ num.num <= 100

(* text input onChange (App.tsx:614-619) *)
CompressionTextChange(raw) ==
  /\ isEditingCompression
  /\ LET v == FilterChars(raw, DigitChars)
     IN  tempCompressionValue' = IF v = <<>> \/ InRange(Number(v))
                                 THEN v ELSE tempCompressionValue
  /\ UNCHANGED <<compressionQuality, isEditingCompression>>
  /\ compressionUnchanged

(* onBlur, and onKeyDown with Enter (App.tsx:620-637) *)
CompressionCommit ==
  /\ isEditingCompression
  /\ LET num == Number(tempCompressionValue)
     IN  IF InRange(num)
         THEN /\ compressionQuality' = IF num.num = 0 THEN <<"0">>
                                       ELSE NatToString(num.num)
              /\ UNCHANGED tempCompressionValue
         ELSE /\ tempCompressionValue' = compressionQuality
              /\ UNCHANGED compressionQuality
  /\ isEditingCompression' = FALSE
  /\ compressionUnchanged

(* onKeyDown with Escape (App.tsx:638-641) *)
CompressionEscape ==
  /\ isEditingCompression
  /\ tempCompressionValue' = compressionQuality
  /\ isEditingCompression' = FALSE
  /\ UNCHANGED compressionQuality
  /\ compressionUnchanged

(***************************************************************************)
(* Frame files on disk and FrameScanner (spec.md 3, 4.1)                   *)
(***************************************************************************)
FrameFiles == {FileA, FileB, FileC}
FrameSize(p) == IF p = FileC THEN <<4, 4>> ELSE <<2, 3>>
Folders == {Dir}
(* the supported regular files of a folder, in natural order *)
FolderFiles(d) == IF d = Dir THEN <<FileA, FileB>> ELSE <<>>

ScanOf(paths) ==
  LET readable == SelectSeq(paths, LAMBDA p : p \in FrameFiles)
      files == [i \in 1..Len(readable) |->
                  [path |-> readable[i], width |-> FrameSize(readable[i])[1],
                   height |-> FrameSize(readable[i])[2]]]
      same == \A i \in 1..Len(files) :
                <<files[i].width, files[i].height>> = FrameSize(readable[1])
  IN  [files |-> files, total |-> Len(files), allSameSize |-> same,
       baseSize |-> IF same /\ Len(files) > 0 THEN Some(FrameSize(readable[1]))
                    ELSE Null]

(* scan(inputMode, inputPath, inputPaths): a folder that does not exist    *)
(* fails the call; files that cannot be read are left out                  *)
CtrlScan(c) ==
  /\ c.kind = "scan" /\ c.status = "sent"
  /\ LET a == c.arg[1]
     IN  calls' =
           IF a.inputMode = "folder"
           THEN IF a.inputPath \in Folders
                THEN Replace(c, [c EXCEPT !.status = "ok",
                                          !.ret = ScanOf(FolderFiles(a.inputPath))])
                ELSE Replace(c, [c EXCEPT !.status = "err", !.error = "NotFound"])
           ELSE Replace(c, [c EXCEPT !.status = "ok",
                                     !.ret = ScanOf(a.inputPaths[1])])
  /\ UNCHANGED <<formVars, runVars, dlgVars, events, ctrlVars, baseVars, subVars>>

(***************************************************************************)
(* Picker dialogs (App.tsx:110-230)                                        *)
(***************************************************************************)
(* the finally blocks of the three pickers (App.tsx:170-173, 200-203, 216-219) *)
Finally(k) ==
  /\ dialogInFlight' = [dialogInFlight EXCEPT ![k] = FALSE]
  /\ isPicking' = [isPicking EXCEPT ![k] = FALSE]

(* a picker up to its await of open(): the in-flight check, the flags and  *)
(* the request id (App.tsx:131-149, 177-186, 207-212). The button is       *)
(* disabled while isPicking (App.tsx:472-475, 513).                        *)
PickBegin(k) ==
  /\ ~isPicking[k]
  /\ dialogReqId[k] < MaxReqId
  /\ IF dialogInFlight[k]
     THEN Finally(k) /\ UNCHANGED <<dialogReqId, calls>>
     ELSE /\ Room
          /\ dialogInFlight' = [dialogInFlight EXCEPT ![k] = TRUE]
          /\ isPicking' = [isPicking EXCEPT ![k] = TRUE]
          /\ dialogReqId' = [dialogReqId EXCEPT ![k] = @ + 1]
          /\ calls' = Invoke(Call("open", Some([dialog |-> k,
                                                reqId |-> dialogReqId'[k]])))
  /\ UNCHANGED <<formVars, runVars, events, ctrlVars, baseVars, subVars>>

pickInput == PickBegin("input")
pickInputFolder == PickBegin("inputFolder")
pickOutputDir == PickBegin("outputDir")

(* the user closes a dialog with a selection or without one (null) *)
DialogClose(c, picked) ==
  /\ c.kind = "open" /\ c.status = "sent"
  /\ calls' = Replace(c, [c EXCEPT !.status = "ok", !.ret = picked])
  /\ UNCHANGED <<formVars, runVars, dlgVars, events, ctrlVars, baseVars, subVars>>

(* Array.from(new Set(filesRaw)) : first occurrences, in order *)
Dedupe(seq) ==
  LET first == {i \in 1..Len(seq) : \A j \in 1..(i - 1) : seq[j] # seq[i]}
      Nth[n \in 0..Len(seq)] ==
        IF n = 0 THEN <<>>
        ELSE IF n \in first THEN Append(Nth[n - 1], seq[n]) ELSE Nth[n - 1]
  IN  Nth[Len(seq)]

(* scanFiles up to its await (App.tsx:110-123), called with overrides *)
ScanCall(ip, ips, folder, k) ==
  Call("scan", Some([inputMode |-> IF folder THEN "folder" ELSE "file",
                     inputPath |-> ip,
                     inputPaths |-> IF ~folder THEN Some(ips) ELSE Null,
                     picker |-> k]))
ScanSkipped(ip, ips, folder) ==
  \/ folder /\ trim(ip) = <<>>
  \/ ~folder /\ ips = <<>> /\ trim(ip) = <<>>

unpicked ==
  UNCHANGED <<inputPath, inputPaths, isFolder, outputName, scanResult>>

(* pickInput after open() (App.tsx:150-173) *)
PickInputReturn(c) ==
  /\ c.kind = "open" /\ c.status = "ok" /\ c.arg[1].dialog = "input"
  /\ LET files == IF c.ret = Null THEN <<>> ELSE Dedupe(c.ret[1])
     IN  IF c.arg[1].reqId # dialogReqId["input"]
         THEN Finally("input") /\ calls' = Remove(c) /\ unpicked
         ELSE IF files # <<>>
         THEN /\ inputPaths' = files
              /\ inputPath' = files[1]
              /\ isFolder' = FALSE
              /\ outputName' = AutoName(scanResult, FALSE, inputPath', inputPaths',
                                        outputName)
              /\ UNCHANGED scanResult
              /\ IF ScanSkipped(files[1], files, FALSE)
                 THEN Finally("input") /\ calls' = Remove(c)
                 ELSE /\ calls' = Replace(c, ScanCall(files[1], files, FALSE, "input"))
                      /\ UNCHANGED <<dialogInFlight, isPicking>>
         ELSE Finally("input") /\ calls' = Remove(c) /\ unpicked
  /\ UNCHANGED <<outputDir, fps, loopCount, formats, useLocalCompression,
                 compressionQuality, isEditingCompression, tempCompressionValue>>
  /\ UNCHANGED <<runVars, dialogReqId, events, ctrlVars, baseVars, subVars>>

(* pickInputFolder after open() (App.tsx:187-203) *)
PickInputFolderReturn(c) ==
  /\ c.kind = "open" /\ c.status = "ok" /\ c.arg[1].dialog = "inputFolder"
  /\ LET p == IF c.ret = Null THEN <<>> ELSE c.ret[1]
     IN  IF c.arg[1].reqId # dialogReqId["inputFolder"]
         THEN Finally("inputFolder") /\ calls' = Remove(c) /\ unpicked
         ELSE IF p # <<>>
         THEN /\ inputPath' = p
              /\ inputPaths' = <<>>
              /\ isFolder' = TRUE
              /\ outputName' = AutoName(scanResult, TRUE, inputPath', inputPaths',
                                        outputName)
              /\ UNCHANGED scanResult
              /\ IF ScanSkipped(p, <<>>, TRUE)
                 THEN Finally("inputFolder") /\ calls' = Remove(c)
                 ELSE /\ calls' = Replace(c, ScanCall(p, <<>>, TRUE, "inputFolder"))
                      /\ UNCHANGED <<dialogInFlight, isPicking>>
         ELSE Finally("inputFolder") /\ calls' = Remove(c) /\ unpicked
  /\ UNCHANGED <<outputDir, fps, loopCount, formats, useLocalCompression,
                 compressionQuality, isEditingCompression, tempCompressionValue>>
  /\ UNCHANGED <<runVars, dialogReqId, events, ctrlVars, baseVars, subVars>>

(* pickOutputDir after open() (App.tsx:213-219) *)
PickOutputDirReturn(c) ==
  /\ c.kind = "open" /\ c.status = "ok" /\ c.arg[1].dialog = "outputDir"
  /\ outputDir' = IF c.arg[1].reqId # dialogReqId["outputDir"] THEN outputDir
                  ELSE IF c.ret = Null THEN <<>> ELSE c.ret[1]
  /\ Finally("outputDir")
  /\ calls' = Remove(c)
  /\ UNCHANGED <<inputPath, inputPaths, isFolder, outputName, fps, loopCount, formats,
                 useLocalCompression, compressionQuality, isEditingCompression,
                 tempCompressionValue, scanResult>>
  /\ UNCHANGED <<runVars, dialogReqId, events, ctrlVars, baseVars, subVars>>

(* scanFiles after its await (App.tsx:124-127), then the finally of the    *)
(* picker that awaited it                                                  *)
ScanReturn(c) ==
  /\ c.kind = "scan" /\ c.status \in {"ok", "err"}
  /\ scanResult' = IF c.status = "ok" THEN Some(c.ret) ELSE scanResult
  /\ outputName' = IF c.status = "ok"
                   THEN AutoName(scanResult', isFolder, inputPath, inputPaths,
                                 outputName)
                   ELSE outputName
  /\ Finally(c.arg[1].picker)
  /\ calls' = Remove(c)
  /\ UNCHANGED <<inputPath, inputPaths, isFolder, outputDir, fps, loopCount, formats,
                 useLocalCompression, compressionQuality, isEditingCompression,
                 tempCompressionValue>>
  /\ UNCHANGED <<runVars, dialogReqId, events, ctrlVars, baseVars, subVars>>

(* resetDialogs (App.tsx:222-230); the link is rendered while a picker is  *)
(* open (App.tsx:481-491)                                                  *)
resetDialogs ==
  /\ \E k \in DialogKinds : isPicking[k]
  /\ \A k \in DialogKinds : dialogReqId[k] < MaxReqId
  /\ dialogInFlight' = [k \in DialogKinds |-> FALSE]
  /\ dialogReqId' = [k \in DialogKinds |-> dialogReqId[k] + 1]
  /\ isPicking' = [k \in DialogKinds |-> FALSE]
  /\ UNCHANGED <<formVars, runVars, ipcVars, ctrlVars, baseVars, subVars>>

(***************************************************************************)
(* The convert-progress subscription (mount effect, App.tsx:281-296)       *)
(***************************************************************************)
subUnchanged ==
  UNCHANGED <<formVars, runVars, dlgVars, ipcVars, ctrlVars, baseVars>>

(* the listener is registered: listen has resolved and u1 was not called *)
Listening == pcListen = "resolved" /\ unlistenCalls = 0

NoCancelCheckListenResolve ==
  /\ pcListen = "pending"
  /\ pcListen' = "resolved"
  /\ unsubs' = Append(unsubs, "u1")
  /\ UNCHANGED <<mounted, cancelled, unlistenCalls>>
  /\ subUnchanged

(* listen resolves with u1: the effect calls u1 at once when it was        *)
(* cancelled, and keeps it in unsubs otherwise (App.tsx:285-290)           *)
ListenResolve ==
  /\ pcListen = "pending"
  /\ pcListen' = "resolved"
  /\ IF cancelled
     THEN unlistenCalls' = unlistenCalls + 1 /\ UNCHANGED unsubs
     ELSE unsubs' = Append(unsubs, "u1") /\ UNCHANGED unlistenCalls
  /\ UNCHANGED <<mounted, cancelled>>
  /\ subUnchanged

(* listen rejects: nothing was registered and the effect's async function  *)
(* ends at its await (App.tsx:285)                                         *)
ListenReject ==
  /\ pcListen = "pending"
  /\ pcListen' = "rejected"
  /\ UNCHANGED <<mounted, cancelled, unsubs, unlistenCalls>>
  /\ subUnchanged

(* the component unmounts: the cleanup of the effect (App.tsx:292-295) *)
Unmount ==
  /\ mounted
  /\ mounted' = FALSE
  /\ cancelled' = TRUE
  /\ unlistenCalls' = unlistenCalls + Len(unsubs)
  /\ UNCHANGED <<pcListen, unsubs>>
  /\ subUnchanged

(***************************************************************************)
(* Conversion handlers of the shell                                        *)
(***************************************************************************)
(* History kept with each convert request in flight, not sent to the       *)
(* controller: whether the user has clicked Cancel since it was sent.       *)
Uncancelled(request) == <<request, FALSE>>
MarkCancelled(c) ==
  IF c.kind = "convert" THEN [c EXCEPT !.arg = <<c.arg[1], TRUE>>] ELSE c
CancelledCalls ==
  [d \in {MarkCancelled(c) : c \in InFlight} |->
     BagCardinality([c \in {e \in InFlight : MarkCancelled(e) = d} |->
                       CopiesIn(c, calls)])]

(* startConvert up to its await (App.tsx:249-272) *)
startConvert ==
  IF ~canConvert
  THEN UNCHANGED vars
  ELSE /\ Room
       /\ isConverting' = TRUE
       /\ isPaused' = FALSE
       /\ progress' = Null
       /\ results' = <<>>
       /\ calls' = Invoke(Call("convert", Uncancelled(ConvertRequest)))
       /\ UNCHANGED <<formVars, dlgVars, events, ctrlVars, baseVars, subVars>>

(* startConvert after its await: setResults, catch, finally (App.tsx:273-278) *)
ConvertReturn(c) ==
  /\ c.kind = "convert" /\ c.status \in {"ok", "err"}
  /\ results' = IF c.status = "ok" THEN c.ret ELSE results
  /\ isConverting' = FALSE
  /\ calls' = Remove(c)
  /\ UNCHANGED <<formVars, isPaused, progress, dlgVars, events, ctrlVars, baseVars, subVars>>

(* togglePause up to its await (App.tsx:232-240); the button is rendered only  *)
(* while isConverting (App.tsx:687-704)                                    *)
togglePause ==
  /\ isConverting
  /\ Room
  /\ calls' = Invoke(Call(IF isPaused THEN "resume" ELSE "pause", Null))
  /\ UNCHANGED <<formVars, runVars, dlgVars, events, ctrlVars, baseVars, subVars>>

(* togglePause after its await; a rejected invoke leaves the state alone *)
PauseReturn(c) ==
  /\ c.kind \in {"pause", "resume"} /\ c.status \in {"ok", "err"}
  /\ isPaused' = IF c.status = "ok" THEN (c.kind = "pause") ELSE isPaused
  /\ calls' = Remove(c)
  /\ UNCHANGED <<formVars, isConverting, progress, results, dlgVars, events,
                 ctrlVars, baseVars, subVars>>

(* cancelConvert up to its await (App.tsx:242-243); the button is rendered    *)
(* only while isConverting (App.tsx:687-710)                               *)
cancelConvert ==
  /\ isConverting
  /\ Room
  /\ calls' = CancelledCalls (+) SetToBag({Call("cancel", Null)})
  /\ UNCHANGED <<formVars, runVars, dlgVars, events, ctrlVars, baseVars, subVars>>

(* cancelConvert after its await (App.tsx:244-246) *)
CancelReturn(c) ==
  /\ c.kind = "cancel" /\ c.status \in {"ok", "err"}
  /\ IF c.status = "ok"
     THEN isConverting' = FALSE /\ isPaused' = FALSE /\ progress' = Null
     ELSE UNCHANGED <<isConverting, isPaused, progress>>
  /\ calls' = Remove(c)
  /\ UNCHANGED <<formVars, results, dlgVars, events, ctrlVars, baseVars, subVars>>

(* the convert-progress listener (App.tsx:285) *)
ProgressListener ==
  /\ Listening
  /\ events # <<>>
  /\ progress' = Some(Head(events))
  /\ events' = Tail(events)
  /\ UNCHANGED <<formVars, isConverting, isPaused, results, dlgVars, calls,
                 ctrlVars, baseVars, subVars>>

(***************************************************************************)
(* Conversion controller (spec.md 4.4, 4.5, 5, 6, 7)                       *)
(***************************************************************************)
Active   == {"Running", "Paused"}
Terminal == {"Completed", "Cancelled", "Failed"}

Reply(c, status, ret, error) ==
  [c EXCEPT !.status = status, !.ret = ret, !.error = error]

shellUnchanged == UNCHANGED <<formVars, runVars, dlgVars, baseVars, subVars>>

(* start(request): rejected with AlreadyRunning if state # Idle; a request     *)
(* whose output directory is not writable fails validation and leaves Idle *)
CtrlStart(c) ==
  /\ c.kind = "convert" /\ c.status = "sent"
  /\ IF jobState # "Idle"
     THEN /\ calls' = Replace(c, Reply(c, "err", <<>>, "AlreadyRunning"))
          /\ UNCHANGED ctrlVars
     ELSE \/ /\ calls' = Replace(c, Reply(c, "err", <<>>, "ValidationError"))
             /\ UNCHANGED ctrlVars
          \/ /\ calls' = Replace(c, Reply(c, "running", <<>>, ""))
             /\ jobState' = "Running"
             /\ cancelFlag' = FALSE
             /\ jobFormats' = c.arg[1].formats
             /\ jobIndex' = 0
             /\ jobResults' = <<>>
             /\ UNCHANGED diskVars
  /\ UNCHANGED events
  /\ shellUnchanged

(* pause(): valid only in Running; otherwise a no-op or an error *)
CtrlPause(c) ==
  /\ c.kind = "pause" /\ c.status = "sent"
  /\ IF jobState = "Running"
     THEN jobState' = "Paused" /\ calls' = Replace(c, Reply(c, "ok", <<>>, ""))
     ELSE /\ UNCHANGED jobState
          /\ \/ calls' = Replace(c, Reply(c, "ok", <<>>, ""))
             \/ calls' = Replace(c, Reply(c, "err", <<>>, "NotRunning"))
  /\ UNCHANGED <<cancelFlag, jobFormats, jobIndex, jobResults, diskVars, events>>
  /\ shellUnchanged

(* resume(): valid only in Paused; otherwise a no-op or an error *)
CtrlResume(c) ==
  /\ c.kind = "resume" /\ c.status = "sent"
  /\ IF jobState = "Paused"
     THEN jobState' = "Running" /\ calls' = Replace(c, Reply(c, "ok", <<>>, ""))
     ELSE /\ UNCHANGED jobState
          /\ \/ calls' = Replace(c, Reply(c, "ok", <<>>, ""))
             \/ calls' = Replace(c, Reply(c, "err", <<>>, "NotPaused"))
  /\ UNCHANGED <<cancelFlag, jobFormats, jobIndex, jobResults, diskVars, events>>
  /\ shellUnchanged

(* cancel(): valid in Running or Paused, sets the cancellation flag;       *)
(* otherwise a no-op or an error                                           *)
CtrlCancel(c) ==
  /\ c.kind = "cancel" /\ c.status = "sent"
  /\ IF jobState \in Active
     THEN cancelFlag' = TRUE /\ calls' = Replace(c, Reply(c, "ok", <<>>, ""))
     ELSE /\ UNCHANGED cancelFlag
          /\ \/ calls' = Replace(c, Reply(c, "ok", <<>>, ""))
             \/ calls' = Replace(c, Reply(c, "err", <<>>, "NoActiveJob"))
  /\ UNCHANGED <<jobState, jobFormats, jobIndex, jobResults, diskVars, events>>
  /\ shellUnchanged

(* the bounded progress channel: an event is queued for the registered     *)
(* listener; without one, or when it does not fit, it is dropped           *)
Emit(ev) ==
  IF Listening /\ Len(events) < MaxEvents THEN Append(events, ev) ELSE events

DropFailedAppendResult(res, format, success) ==
  IF success THEN Append(res, [format |-> format, success |-> success]) ELSE res

(* ResultAggregator: one ConvertResult per format attempted *)
AppendResult(res, format, success) ==
  Append(res, [format |-> format, success |-> success])

(* the format in flight: the next one of the request *)
InFlightFormat == jobFormats[jobIndex + 1]

(* the encoder of the format in flight begins to write its output file;    *)
(* the file is partial until the format completes                          *)
JobWrite ==
  /\ jobState = "Running" /\ ~cancelFlag
  /\ jobIndex < Len(jobFormats) /\ ~writing
  /\ writing' = TRUE
  /\ outFiles' = [outFiles EXCEPT ![InFlightFormat] = "partial"]
  /\ UNCHANGED <<jobState, cancelFlag, jobFormats, jobIndex, jobResults, calls, events>>
  /\ shellUnchanged

(* one format: decode, encode, compress, write; it succeeds or fails, and  *)
(* either way its ConvertResult is appended and the next format follows.   *)
(* A format that succeeds has written its whole file; what a format that   *)
(* fails leaves of a file it began is not specified                        *)
JobStep ==
  /\ jobState = "Running" /\ ~cancelFlag
  /\ jobIndex < Len(jobFormats)
  /\ jobIndex' = jobIndex + 1
  /\ \E success \in BOOLEAN :
       /\ success => writing
       /\ jobResults' = AppendResult(jobResults, InFlightFormat, success)
       /\ \E left \in IF success THEN {"done"}
                       ELSE IF writing THEN {"none", "partial"}
                       ELSE {outFiles[InFlightFormat]} :
            outFiles' = [outFiles EXCEPT ![InFlightFormat] = left]
  /\ writing' = FALSE
  /\ events' = Emit([current |-> jobIndex', total |-> Len(jobFormats)])
  /\ UNCHANGED <<jobState, cancelFlag, jobFormats, calls>>
  /\ shellUnchanged

RunningCalls == {c \in InFlight : c.kind = "convert" /\ c.status = "running"}

(* every format attempted: Completed if at least one succeeded, else Failed; *)
(* convert returns the result list                                         *)
JobFinish ==
  /\ jobState = "Running"
  /\ jobIndex = Len(jobFormats)
  /\ jobState' = IF \E i \in 1..Len(jobResults) : jobResults[i].success
                 THEN "Completed" ELSE "Failed"
  /\ \E c \in RunningCalls : calls' = Replace(c, Reply(c, "ok", jobResults, ""))
  /\ UNCHANGED <<cancelFlag, jobFormats, jobIndex, jobResults, diskVars, events>>
  /\ shellUnchanged

KeepPartialJobCancelled ==
  /\ jobState \in Active /\ cancelFlag
  /\ jobIndex < Len(jobFormats)
  /\ jobState' = "Cancelled"
  /\ writing' = FALSE
  /\ UNCHANGED outFiles
  /\ \E c \in RunningCalls : calls' = Replace(c, Reply(c, "ok", jobResults, ""))
  /\ UNCHANGED <<cancelFlag, jobFormats, jobIndex, jobResults, events>>
  /\ shellUnchanged

(* the cancellation flag observed at a suspension point: the job stops     *)
(* before the current format completes, what the format in flight has      *)
(* written is deleted, and convert returns what it has                     *)
JobCancelled ==
  /\ jobState \in Active /\ cancelFlag
  /\ jobIndex < Len(jobFormats)
  /\ jobState' = "Cancelled"
  /\ writing' = FALSE
  /\ outFiles' = IF writing THEN [outFiles EXCEPT ![InFlightFormat] = "none"]
                 ELSE outFiles
  /\ \E c \in RunningCalls : calls' = Replace(c, Reply(c, "ok", jobResults, ""))
  /\ UNCHANGED <<cancelFlag, jobFormats, jobIndex, jobResults, events>>
  /\ shellUnchanged

(* the user is filling the form: no conversion and no call is under way *)
FormIdle == ~isConverting /\ calls = EmptyBag

(***************************************************************************)
(* Specification of the conversion life cycle                              *)
(***************************************************************************)
Init == InitShell /\ InitIpc /\ InitCtrl /\ InitBase /\ InitSub

Next ==
  \/ InputPathChange(FileA)
  \/ OutputDirChange(OutDir)
  \/ startConvert
  \/ togglePause
  \/ cancelConvert
  \/ \E c \in InFlight : ConvertReturn(c)
  \/ \E c \in InFlight : PauseReturn(c)
  \/ \E c \in InFlight : CancelReturn(c)
  \/ \E c \in InFlight : CtrlStart(c)
  \/ \E c \in InFlight : CtrlPause(c)
  \/ \E c \in InFlight : CtrlResume(c)
  \/ \E c \in InFlight : CtrlCancel(c)
  \/ ListenResolve
  \/ ProgressListener
  \/ JobWrite
  \/ JobStep
  \/ JobFinish
  \/ JobCancelled

Spec == Init /\ [][Next]_vars

(* The controller handles every request it has received, the job thread    *)
(* runs, and every reply and event is delivered to the shell; the user is  *)
(* free to act or not.                                                     *)
Fairness ==
  /\ WF_vars(\E c \in InFlight : CtrlStart(c))
  /\ WF_vars(\E c \in InFlight : CtrlPause(c))
  /\ WF_vars(\E c \in InFlight : CtrlResume(c))
  /\ WF_vars(\E c \in InFlight : CtrlCancel(c))
  /\ WF_vars(JobWrite) /\ WF_vars(JobStep) /\ WF_vars(JobFinish) /\ WF_vars(JobCancelled)
  /\ WF_vars(\E c \in InFlight : ConvertReturn(c))
  /\ WF_vars(\E c \in InFlight : PauseReturn(c))
  /\ WF_vars(\E c \in InFlight : CancelReturn(c))
  /\ WF_vars(ListenResolve)
  /\ WF_vars(ProgressListener)

FairSpec == Spec /\ Fairness

(* Only the cancel request is sure to be handled and answered: no progress *)
(* event need be delivered and the convert request need not return.        *)
FairCancelSpec ==
  /\ Spec
  /\ WF_vars(\E c \in InFlight : CtrlCancel(c))
  /\ WF_vars(\E c \in InFlight : CancelReturn(c))

(* The conversion life cycle of a user who never cancels *)
NextNoCancel ==
  \/ InputPathChange(FileA)
  \/ OutputDirChange(OutDir)
  \/ startConvert
  \/ togglePause
  \/ \E c \in InFlight : ConvertReturn(c)
  \/ \E c \in InFlight : PauseReturn(c)
  \/ \E c \in InFlight : CtrlStart(c)
  \/ \E c \in InFlight : CtrlPause(c)
  \/ \E c \in InFlight : CtrlResume(c)
  \/ ListenResolve
  \/ ProgressListener
  \/ JobWrite
  \/ JobStep
  \/ JobFinish

SpecNoCancel == Init /\ [][NextNoCancel]_vars

(***************************************************************************)
(* Specification of the jobs of the controller, one conversion at a time:  *)
(* the user fills the form and clicks Convert between conversions, and     *)
(* clicks Cancel at any moment                                             *)
(***************************************************************************)
NextJob ==
  \/ FormIdle /\ InputPathChange(FileA)
  \/ FormIdle /\ OutputDirChange(OutDir)
  \/ FormIdle /\ \E f \in Checkboxes : toggleFormat(f)
  \/ FormIdle /\ startConvert
  \/ cancelConvert
  \/ \E c \in InFlight : ConvertReturn(c)
  \/ \E c \in InFlight : CancelReturn(c)
  \/ \E c \in InFlight : CtrlStart(c)
  \/ \E c \in InFlight : CtrlCancel(c)
  \/ JobWrite
  \/ JobStep
  \/ JobFinish
  \/ JobCancelled

SpecJob == Init /\ [][NextJob]_vars

(***************************************************************************)
(* Specification of the input selection: pickers, scans, typed paths and   *)
(* the auto-generated output name                                          *)
(***************************************************************************)
FilePicks == {Null, Some(<<FileA, FileB>>), Some(<<FileC>>)}
FolderPicks == {Null, Some(Dir)}
Picks(c) == IF c.kind = "open" /\ c.arg[1].dialog = "input" THEN FilePicks
            ELSE FolderPicks

(* no auto-generated name is one of these: they have no _{width}x{height} *)
TypedNames == {<<"n">>}

NextInput ==
  \/ pickInput
  \/ pickInputFolder
  \/ \E c \in InFlight : \E picked \in Picks(c) : DialogClose(c, picked)
  \/ \E c \in InFlight : PickInputReturn(c)
  \/ \E c \in InFlight : PickInputFolderReturn(c)
  \/ \E c \in InFlight : CtrlScan(c)
  \/ \E c \in InFlight : ScanReturn(c)
  \/ resetDialogs
  \/ \E v \in {<<>>, FileC} : InputPathChange(v)
  \/ \E v \in TypedNames : OutputNameChange(v)

SpecInput == Init /\ [][NextInput]_vars

(***************************************************************************)
(* Specification of the progress subscription: the component mounts,       *)
(* converts while mounted, and unmounts before or after listen resolves    *)
(***************************************************************************)
NextListener ==
  \/ ListenResolve
  \/ ListenReject
  \/ Unmount
  \/ mounted /\ InputPathChange(FileA)
  \/ mounted /\ OutputDirChange(OutDir)
  \/ mounted /\ startConvert
  \/ \E c \in InFlight : ConvertReturn(c)
  \/ \E c \in InFlight : CtrlStart(c)
  \/ ProgressListener
  \/ JobWrite
  \/ JobStep
  \/ JobFinish

SpecListener == Init /\ [][NextListener]_vars

(***************************************************************************)
(* Specification of the picker dialogs: the three pickers, their dialogs,  *)
(* the scans they start and resetDialogs                                   *)
(***************************************************************************)
NextDialogs ==
  \/ pickInput
  \/ pickInputFolder
  \/ pickOutputDir
  \/ \E c \in InFlight : \E picked \in Picks(c) : DialogClose(c, picked)
  \/ \E c \in InFlight : PickInputReturn(c)
  \/ \E c \in InFlight : PickInputFolderReturn(c)
  \/ \E c \in InFlight : PickOutputDirReturn(c)
  \/ \E c \in InFlight : CtrlScan(c)
  \/ \E c \in InFlight : ScanReturn(c)
  \/ resetDialogs

SpecDialogs == Init /\ [][NextDialogs]_vars

(***************************************************************************)
(* Specification of the form: the user edits the fields and picks a folder *)
(* between conversions, and starts                                         *)
(***************************************************************************)
TypedInputPaths == {<<>>, <<" ">>, FileA}
TypedOutputDirs == {<<" ">>, <<"/", "o", " ">>}
TypedFps        == {<<>>, <<"0">>, <<".">>, <<"1", ".", "5">>, <<"-", "5">>}
TypedLoopCounts == {<<>>, <<"2">>, <<"-", "1">>}

NextForm ==
  \/ FormIdle /\ \E v \in TypedInputPaths : InputPathChange(v)
  \/ FormIdle /\ \E v \in TypedOutputDirs : OutputDirChange(v)
  \/ FormIdle /\ \E raw \in TypedFps : FpsChange(raw)
  \/ FormIdle /\ \E raw \in TypedLoopCounts : LoopCountChange(raw)
  \/ FormIdle /\ \E f \in Checkboxes : toggleFormat(f)
  \/ FormIdle /\ pickInputFolder
  \/ \E c \in InFlight : \E picked \in FolderPicks : DialogClose(c, picked)
  \/ \E c \in InFlight : PickInputFolderReturn(c)
  \/ \E c \in InFlight : CtrlScan(c)
  \/ \E c \in InFlight : ScanReturn(c)
  \/ startConvert
  \/ \E c \in InFlight : CtrlStart(c)
  \/ \E c \in InFlight : ConvertReturn(c)

SpecForm == Init /\ [][NextForm]_vars

(***************************************************************************)
(* Specification of the compression field: slider, text input, and starts  *)
(***************************************************************************)
SliderPositions  == {0, 1, 50, 100}
TypedCompression == {<<>>, <<"7">>, <<"0", "0", "7">>, <<"1", "0", "0">>,
                     <<"1", "0", "1">>, <<"5", "a">>}

NextCompression ==
  \/ InputPathChange(FileA)
  \/ OutputDirChange(OutDir)
  \/ \E n \in SliderPositions : CompressionSlider(n)
  \/ CompressionBeginEdit
  \/ \E raw \in TypedCompression : CompressionTextChange(raw)
  \/ CompressionCommit
  \/ CompressionEscape
  \/ startConvert
  \/ \E c \in InFlight : CtrlStart(c)
  \/ \E c \in InFlight : ConvertReturn(c)

SpecCompression == Init /\ [][NextCompression]_vars

(***************************************************************************)
(* Specification of getBaseName: one call on every path up to MaxPathLen   *)
(***************************************************************************)
PathChars == {"/", "\\", ".", "_", "-", "1", "a"}
Paths == UNION {[1..n -> PathChars] : n \in 0..MaxPathLen}

InitBaseName ==
  /\ InitShell /\ InitIpc /\ InitCtrl /\ InitSub
  /\ argPath \in Paths
  /\ retName = <<>>
  /\ pcBase = "call"

CallGetBaseName ==
  /\ pcBase = "call"
  /\ retName' = getBaseName(argPath)
  /\ pcBase' = "done"
  /\ UNCHANGED <<argPath, formVars, runVars, dlgVars, ipcVars, ctrlVars, subVars>>

SpecBaseName == InitBaseName /\ [][CallGetBaseName]_vars

(***************************************************************************)
(* Claims                                                                  *)
(***************************************************************************)
Copies(c, b) == CopiesIn(c, b)
Outstanding ==
  {c \in InFlight : c.kind = "convert" /\ c.status \in {"sent", "running"}}
NumOutstanding == BagCardinality([c \in Outstanding |-> Copies(c, calls)])

(* C1: at most one convert request that has not yet returned is outstanding *)
(* at any time.                                                            *)
C1_AtMostOneConvertOutstanding == NumOutstanding <= 1

Issued(kind) == Copies(Call(kind, Null), calls') > Copies(Call(kind, Null), calls)

(* C4: pause_conversion is issued only while the job is Running, and       *)
(* resume_conversion only while it is Paused.                              *)
C4_PauseOnlyRunningResumeOnlyPaused ==
  [][/\ Issued("pause") => jobState = "Running"
     /\ Issued("resume") => jobState = "Paused"]_vars

(* the double click of C4: a second pause is issued while the first has    *)
(* been handled and not yet returned                                       *)
C4_NoSecondPauseWhilePaused ==
  [][Issued("pause") => ~(jobState = "Paused" /\ CallsOf("pause") # {})]_vars

StartHandled(c) ==
  /\ c.kind = "convert" /\ c.status = "sent"
  /\ Copies(c, calls') < Copies(c, calls)

Rejected(error) ==
  \E d \in CallsOf("convert")' :
    d.status = "err" /\ d.error = error /\ Copies(d, calls') > Copies(d, calls)

ResultFormats(res) == [i \in 1..Len(res) |-> res[i].format]

ScanYields ==
  /\ scanResult' # scanResult
  /\ scanResult' # Null
  /\ scanResult'[1].baseSize # Null

SizeSuffix(sr) ==
  <<"_">> \o NatToString(sr[1].baseSize[1][1]) \o <<"x">>
          \o NatToString(sr[1].baseSize[1][2])

(* C5 as stated: when a scan yields a baseSize (width, height), the        *)
(* auto-generated output name is {base name of the first input frame       *)
(* file}_{width}x{height}, in file mode and in folder mode alike.          *)
C5_AutoNameFromFirstFrame ==
  [][ScanYields =>
       outputName' = getBaseName(scanResult'[1].files[1].path) \o <<"_">>
                     \o NatToString(scanResult'[1].baseSize[1][1]) \o <<"x">>
                     \o NatToString(scanResult'[1].baseSize[1][2])]_vars

(* C5 amended: when a scan yields a baseSize (width, height), the          *)
(* auto-generated output name is {base name}_{width}x{height}, where the   *)
(* base name is taken from the folder path in folder mode and from the     *)
(* first entry of the input file list (the input path when there is none)  *)
(* in file mode.                                                           *)
C5_AutoNameFromInput ==
  [][ScanYields =>
       outputName' =
         getBaseName(IF isFolder' THEN inputPath'
                     ELSE IF inputPaths' # <<>> /\ inputPaths'[1] # <<>>
                          THEN inputPaths'[1] ELSE inputPath')
         \o SizeSuffix(scanResult')]_vars

C5_Witness ==
  /\ isFolder /\ inputPath = Dir
  /\ scanResult # Null /\ scanResult[1].baseSize = Some(<<2, 3>>)
  /\ scanResult[1].files[1].path = FileA
  /\ outputName = <<"s", "_", "2", "x", "3">>

(* the characters of s after its last separator *)
RECURSIVE LastComponent(_)
LastComponent(s) ==
  IF s = <<>> \/ s[Len(s)] \in PathSeps THEN <<>>
  ELSE LastComponent(SubSeq(s, 1, Len(s) - 1)) \o <<s[Len(s)]>>

(* the number of characters at the end of s that are all in the set allowed *)
RECURSIVE TrailingRun(_, _)
TrailingRun(s, allowed) ==
  IF s = <<>> \/ s[Len(s)] \notin allowed THEN 0
  ELSE 1 + TrailingRun(SubSeq(s, 1, Len(s) - 1), allowed)

(* s without its tail of run characters, when the tail is not empty and is *)
(* preceded by one of the characters of marks; s otherwise                 *)
CutTail(s, run, marks) ==
  IF run > 0 /\ run < Len(s) /\ s[Len(s) - run] \in marks
  THEN SubSeq(s, 1, Len(s) - run - 1) ELSE s

(* a file extension: a final '.' and one or more characters after it, none *)
(* of them '.' or '/'                                                      *)
WithoutExtension(s) == CutTail(s, TrailingRun(s, PathChars \ {".", "/"}), {"."})
(* a sequence suffix: '_' or '-' and one or more digits, at the end *)
WithoutSequenceSuffix(s) == CutTail(s, TrailingRun(s, DigitChars), {"_", "-"})

(* C6 as stated: for every path, getBaseName returns the last path         *)
(* component (split on / or \) with its file extension removed and then    *)
(* one trailing numeric sequence suffix removed, and nothing else.         *)
C6_BaseNameOfLastComponent ==
  pcBase = "done" =>
    retName = WithoutSequenceSuffix(WithoutExtension(LastComponent(argPath)))

(* C6 amended: getBaseName returns the last path component (split on / or  *)
(* \), or the whole path when that component is empty because the path     *)
(* ends with a separator, with its file extension removed and then one     *)
(* trailing numeric sequence suffix removed, and nothing else.             *)
C6_BaseNameOfLastComponentOrPath ==
  pcBase = "done" =>
    LET name == IF LastComponent(argPath) # <<>> THEN LastComponent(argPath)
                ELSE argPath
    IN  retName = WithoutSequenceSuffix(WithoutExtension(name))

C6_Witness ==
  /\ pcBase = "done"
  /\ argPath = <<"a", "_", "1", ".", "a">>
  /\ retName = <<"a">>

IsEmpty(s) == Len(s) = 0
IsBlank(s) == \A i \in 1..Len(s) : s[i] = " "

(* the request validity conditions *)
RequestValid(r) ==
  /\ r.inputMode = "folder" => ~IsEmpty(r.inputPath)
  /\ r.inputMode = "file" => (~IsEmpty(r.inputPaths[1]) \/ ~IsEmpty(r.inputPath))
  /\ ~IsBlank(r.outputDir)
  /\ ~IsEmpty(r.formats)
  /\ ~r.fps.nan /\ r.fps.num > 0
  /\ ~r.loopCount.nan /\ r.loopCount.num >= 0

NumConvertCalls ==
  BagCardinality([c \in CallsOf("convert") |-> Copies(c, calls)])

(* C2: every request that startConvert sends satisfies the request         *)
(* validity conditions; when one of them fails for the form as it is, no   *)
(* request is sent, the shell does not enter the converting state and the  *)
(* results are not cleared.                                                *)
C2_OnlyValidRequestsSent ==
  /\ [](\A c \in CallsOf("convert") : RequestValid(c.arg[1]))
  /\ [][~RequestValid(ConvertRequest) =>
          /\ NumConvertCalls' <= NumConvertCalls
          /\ isConverting' => isConverting
          /\ (results' # results => NumConvertCalls' < NumConvertCalls)]_vars

C2_Witness ==
  /\ \E c \in CallsOf("convert") :
       /\ c.arg[1].inputMode = "folder"
       /\ c.arg[1].fps = Num(15, 1)
       /\ c.arg[1].outputDir = OutDir
  /\ isConverting

Quality(c) == c.arg[1].compressionQuality

C7_LocalCompressionTurnedOn ==
  \A c \in CallsOf("convert") :
    LET q == c.arg[1].compressionQuality
    IN  (~q.nan /\ q.num >= 1 /\ q.num <= 100) => c.arg[1].useLocalCompression

(* what the shell does send: no request ever carries useLocalCompression   *)
(* = true, whatever quality was chosen                                     *)
C7_NeverLocalCompression ==
  \A c \in CallsOf("convert") : ~c.arg[1].useLocalCompression

CancelInvokedDuringJob ==
  jobState \in Active /\ \E c \in CallsOf("cancel") : c.status = "sent"

(* C9: after cancelConvert is invoked during a job, the shell eventually   *)
(* reaches isConverting = false, isPaused = false.                         *)
C9_CancelNeverHangs == CancelInvokedDuringJob ~> (~isConverting /\ ~isPaused)

FailedConvertReturns ==
  \E c \in CallsOf("convert") :
    c.status = "err" /\ Copies(c, calls') < Copies(c, calls)

(* C12: when a convert request fails, the shell leaves the converting      *)
(* state and shows no results: after the failed request has returned,      *)
(* isConverting is false and results is the empty list.                    *)
C12_FailedConvertShowsNoResults ==
  [][FailedConvertReturns => (~isConverting' /\ results' = <<>>)]_vars

(* C13: an output name the user has typed is never replaced by the         *)
(* auto-generated name by a later scan or input change.                    *)
C13_TypedNameNeverReplaced ==
  [][(outputName \in TypedNames) => (outputName' \in TypedNames)]_vars

(* C14: in every reachable state, if a convert request is outstanding that *)
(* the user has not cancelled, then isConverting is true.                  *)
C14_OutstandingMeansConverting ==
  (\E c \in CallsOf("convert") : ~c.arg[2]) => isConverting

(* the dialogs of kind k that are open: open() has not resolved *)
OpenDialogs(k) ==
  {c \in CallsOf("open") : c.status = "sent" /\ c.arg[1].dialog = k}

(* C15: while a picker dialog is open and is the most recently opened one  *)
(* of its kind, the in-flight flag and the 'Opening...' state of its kind   *)
(* stay true.                                                              *)
C15_NewestDialogKeepsFlag ==
  \A k \in DialogKinds :
    (\E c \in OpenDialogs(k) : c.arg[1].reqId = dialogReqId[k]) =>
      (dialogInFlight[k] /\ isPicking[k])

(* the scan of the current input selection *)
ScanOfSelection ==
  IF isFolder THEN ScanOf(FolderFiles(inputPath)) ELSE ScanOf(inputPaths)

(* C16: whenever scanResult is non-null and no scan is in flight, it is    *)
(* the result of the scan of the current input selection (inputPath,       *)
(* inputPaths, isFolder).                                                  *)
C16_ScanResultIsCurrent ==
  (scanResult # Null /\ CallsOf("scan") = {}) => scanResult[1] = ScanOfSelection

(* a picker resumes after its dialog was dismissed without a selection *)
DismissedPickerReturns ==
  \E c \in CallsOf("open") :
    c.status = "ok" /\ c.ret = Null /\ Copies(c, calls') < Copies(c, calls)

(* C17: a picker dialog that is dismissed without a selection leaves       *)
(* inputPath, inputPaths, isFolder, outputDir and scanResult unchanged,    *)
(* for each of pickInput, pickInputFolder and pickOutputDir.               *)
C17_DismissedPickerChangesNothing ==
  [][DismissedPickerReturns =>
       UNCHANGED <<inputPath, inputPaths, isFolder, outputDir, scanResult>>]_vars

DismissedInputPickerReturns ==
  \E c \in CallsOf("open") :
    /\ c.arg[1].dialog # "outputDir"
    /\ c.status = "ok" /\ c.ret = Null /\ Copies(c, calls') < Copies(c, calls)
    /\ \A d \in CallsOf("open") \ {c} : Copies(d, calls') = Copies(d, calls)

(* C17 for pickInput and pickInputFolder alone: their dismissed dialogs    *)
(* change nothing                                                          *)
C17_DismissedInputPickerChangesNothing ==
  [][DismissedInputPickerReturns =>
       UNCHANGED <<inputPath, inputPaths, isFolder, outputDir, scanResult>>]_vars

(* C18: once the component has unmounted and the listen call has resolved, *)
(* the convert-progress listener has been unsubscribed exactly once,       *)
(* whether the unmount happens before or after listen resolves.            *)
C18_UnsubscribedExactlyOnce ==
  (~mounted /\ pcListen = "resolved") => unlistenCalls = 1

(* the unmount came first: u1 was never kept in unsubs *)
C18_Witness ==
  /\ ~mounted /\ pcListen = "resolved"
  /\ unsubs = <<>> /\ unlistenCalls = 1

(* the unmount came after listen resolved, with events delivered before *)
C18_WitnessUnmountAfter ==
  /\ ~mounted /\ pcListen = "resolved"
  /\ unsubs = <<"u1">> /\ unlistenCalls = 1 /\ progress # Null

====
